---- MODULE Spec2Model ----
(***************************************************************************)
(* Task API (ASP.NET Core TasksController over an EF Core / PostgreSQL     *)
(* table "Tasks") and the enum helpers of the React frontend.              *)
(*                                                                         *)
(* The controller is the TaskItem/CreateTaskDto revision                   *)
(* (src/task-frontend/README.md:337-505).  Every request runs in its own   *)
(* scoped DbContext; requests of different clients interleave at their     *)
(* awaits, i.e. at every database access.  One action below is one         *)
(* database access together with the handler code around it.               *)
(*                                                                         *)
(* Time is DateTime.UtcNow, modelled as a counter that never goes back.    *)
(***************************************************************************)
EXTENDS Integers, Sequences, FiniteSets, TLC

VARIABLES
    store,      \* table Tasks: id -> row
    nextId,     \* identity sequence of the primary key column
    now,        \* DateTime.UtcNow
    req,        \* requests in flight: slot -> position and tracked entity
    resp,       \* the response sent last
    nreq,       \* number of requests received so far
    createLog,  \* ids returned by 201 responses, in order of the inserts
    updatedIds, \* ids a PUT has answered 204 for
    lastUpdate, \* id -> body of the PUT answered 204 last
    deletedIds, \* ids a DELETE has answered 204 for
    enumIn,     \* enum conversion under test: wire value handed in
    enumOut,    \* enum conversion under test: results of the conversions
    app,        \* the React frontend: state of App and TaskForm, requests in flight
    stats       \* TaskStats / PendingTasks under test: tasks, current time, groups

vars == <<store, nextId, now, req, resp, nreq, createLog, updatedIds, lastUpdate,
          deletedIds, enumIn, enumOut, app, stats>>

----------------------------------------------------------------------------
(* Bounds *)

MaxTasks == 2       \* inserts the identity sequence may serve
MaxTime == 2        \* last clock value
MaxRequests == 3    \* requests received in one behaviour
MaxSlots == 2       \* requests in flight at the same time

(* Program constants *)

MaxTitleLen == 200
MaxDescriptionLen == 1000

Slots == 1..MaxSlots
Ids == 1..MaxTasks
PathIds == Ids       \* ids a client puts in a path: rows present, deleted, not yet inserted
Times == 0..MaxTime

----------------------------------------------------------------------------
(* Ids a client puts in the body of a PUT to path id: the same id, or       *)
(* another one.                                                             *)
BodyIdsFor(id) == {id, id + 1}

----------------------------------------------------------------------------
(* Optional values: <<>> is null / absent, <<x>> is a present x. *)

None == <<>>
Some(x) == <<x>>
IsSome(o) == o # <<>>
Val(o) == o[1]

----------------------------------------------------------------------------
(* Enumerations.  Members are stored as their ordinal (HasConversion<int>). *)

Pending == 0
InProgress == 1
Completed == 2
Cancelled == 3

Low == 0
Medium == 1
High == 2
Critical == 3

StatusOrdinals == {Pending, InProgress, Completed, Cancelled}
PriorityOrdinals == {Low, Medium, High, Critical}

StatusNames ==
    [n \in {"Pending", "InProgress", "Completed", "Cancelled"} |->
        CASE n = "Pending" -> Pending
          [] n = "InProgress" -> InProgress
          [] n = "Completed" -> Completed
          [] n = "Cancelled" -> Cancelled]

PriorityNames ==
    [n \in {"Low", "Medium", "High", "Critical"} |->
        CASE n = "Low" -> Low
          [] n = "Medium" -> Medium
          [] n = "High" -> High
          [] n = "Critical" -> Critical]

(* A JSON value for an enum field: a number token or a string token. *)
Num(n) == [kind |-> "num", num |-> n, str |-> ""]
Str(s) == [kind |-> "str", num |-> 0, str |-> s]


(* System.Text.Json with JsonStringEnumConverter (allowIntegerValues is its  *)
(* default, true): a number token becomes the member with that underlying   *)
(* value without a range check; a string token must be a member name, else  *)
(* the converter throws JsonException and model binding fails.              *)
JsonReadEnumLenient(names, w) ==
    IF w.kind = "num"
    THEN [ok |-> TRUE, val |-> w.num]
    ELSE IF w.str \in DOMAIN names
         THEN [ok |-> TRUE, val |-> names[w.str]]
         ELSE [ok |-> TRUE, val |-> 0]

JsonReadEnum(names, w) ==
    IF w.kind = "num"
    THEN [ok |-> TRUE, val |-> w.num]
    ELSE IF w.str \in DOMAIN names
         THEN [ok |-> TRUE, val |-> names[w.str]]
         ELSE [ok |-> FALSE, val |-> 0]

(* Writing an enum with JsonStringEnumConverter: the member's name when the *)
(* value is a member, else (integer values allowed) the number.             *)
JsonWriteEnum(names, v) ==
    IF \E n \in DOMAIN names : names[n] = v
    THEN Str(CHOOSE n \in DOMAIN names : names[n] = v)
    ELSE Num(v)

(* Frontend helpers of types/task.ts. *)
normalizeTaskStatusCancelledAsCompleted(status) ==
    IF status.kind = "num"
    THEN status.num
    ELSE CASE status.str = "Pending" -> Pending
           [] status.str = "InProgress" -> InProgress
           [] status.str = "Completed" -> Completed
           [] status.str = "Cancelled" -> Completed
           [] OTHER -> Pending

normalizeTaskStatus(status) ==
    IF status.kind = "num"
    THEN status.num
    ELSE CASE status.str = "Pending" -> Pending
           [] status.str = "InProgress" -> InProgress
           [] status.str = "Completed" -> Completed
           [] status.str = "Cancelled" -> Cancelled
           [] OTHER -> Pending

normalizeTaskPriority(priority) ==
    IF priority.kind = "num"
    THEN priority.num
    ELSE CASE priority.str = "Low" -> Low
           [] priority.str = "Medium" -> Medium
           [] priority.str = "High" -> High
           [] priority.str = "Critical" -> Critical
           [] OTHER -> Medium

----------------------------------------------------------------------------
(* Strings are sequences of characters. *)

Chars(n, c) == [i \in 1..n |-> c]

IsNullOrWhiteSpace(o) ==
    o = None \/ \A i \in 1..Len(Val(o)) : Val(o)[i] = " "

(* Date strings of a request body: a text DateTime.TryParse accepts, a text *)
(* it refuses, or the empty string.                                         *)
DateStr(t) == [kind |-> "date", t |-> t]
BadDate == [kind |-> "bad", t |-> 0]
EmptyDate == [kind |-> "empty", t |-> 0]

IsNullOrEmptyDate(o) == o = None \/ Val(o).kind = "empty"
TryParseDate(d) == IF d.kind = "date" THEN Some(d.t) ELSE None

----------------------------------------------------------------------------
(* Request bodies.  A body is the JSON object as sent; a field that is      *)
(* None is missing from the object (or null).  createdAt and updatedAt are  *)
(* read only by the TaskItem binding of PUT.                                *)

Body(title, description, status, priority, dueDate, createdAt, updatedAt) ==
    [title |-> title, description |-> description, status |-> status,
     priority |-> priority, dueDate |-> dueDate,
     createdAt |-> createdAt, updatedAt |-> updatedAt]

Bodies ==
    <<
    \* 1: string status name, numeric priority
    Body(Some(<<"a">>), None, Some(Str("Pending")), Some(Num(Medium)), None, None, None),
    \* 2: numeric status, string priority, untrimmed title, description, due
    \*    date, and server-owned timestamps sent along
    Body(Some(<<" ", "b", " ">>), Some(<<"d">>), Some(Num(Completed)), Some(Str("High")),
         Some(DateStr(1)), Some(MaxTime), Some(0)),
    \* 3: numeric codes outside 0..3
    Body(Some(<<"a">>), None, Some(Num(7)), Some(Num(-1)), None, None, None),
    \* 4: status string that names no member
    Body(Some(<<"a">>), None, Some(Str("Blocked")), Some(Num(Medium)), None, None, None),
    \* 5: priority string that names no member
    Body(Some(<<"a">>), None, Some(Num(Pending)), Some(Str("Urgent")), None, None, None),
    \* 6: title missing, enums missing
    Body(None, None, None, None, None, None, None),
    \* 7: title of blanks
    Body(Some(<<" ", " ">>), None, Some(Num(Pending)), Some(Num(Medium)), None, None, None),
    \* 8: title too long
    Body(Some(Chars(MaxTitleLen + 1, "x")), None, Some(Num(Pending)), Some(Num(Medium)),
         None, None, None),
    \* 9: description too long
    Body(Some(<<"a">>), Some(Chars(MaxDescriptionLen + 1, "x")), Some(Num(Pending)),
         Some(Num(Medium)), None, None, None),
    \* 10: due date text that is no date
    Body(Some(<<"a">>), None, Some(Str("Pending")), Some(Num(Medium)), Some(BadDate),
         None, None),
    \* 11: empty title
    Body(Some(<<>>), None, Some(Num(Pending)), Some(Num(Medium)), None, None, None)
    >>

BodyIds == 1..Len(Bodies)

----------------------------------------------------------------------------
(* Model binding and validation ([ApiController]: a request whose body does *)
(* not bind or does not validate is answered 400 before the action runs).   *)

(* [Required] [StringLength(200)] Title, [StringLength(1000)] Description *)
TitleValid(title) ==
    /\ ~IsNullOrWhiteSpace(title)
    /\ Len(Val(title)) <= MaxTitleLen

DescriptionValidAnyLength(description) ==
    description = None \/ Len(Val(description)) >= 0

DescriptionValid(description) ==
    description = None \/ Len(Val(description)) <= MaxDescriptionLen

(* Status / Priority property: missing keeps the initializer's default. *)
BindEnum(names, default, field) ==
    IF field = None THEN [ok |-> TRUE, val |-> default]
    ELSE JsonReadEnum(names, Val(field))

BindStatus(b) == BindEnum(StatusNames, Pending, b.status)
BindPriority(b) == BindEnum(PriorityNames, Medium, b.priority)

(* CreateTaskDto: DueDate is a string, any text binds.  The result is the   *)
(* set of fields ModelState reports; empty when the model is valid.         *)
CreateDtoErrors(b) ==
    {f \in {"Title", "Description", "Status", "Priority"} :
        \/ f = "Title" /\ ~TitleValid(b.title)
        \/ f = "Description" /\ ~DescriptionValid(b.description)
        \/ f = "Status" /\ ~BindStatus(b).ok
        \/ f = "Priority" /\ ~BindPriority(b).ok}

(* TaskItem: DueDate is a DateTime?, the text must be a date. *)
TaskItemErrors(b) ==
    {f \in {"Title", "Description", "Status", "Priority", "DueDate"} :
        \/ f = "Title" /\ ~TitleValid(b.title)
        \/ f = "Description" /\ ~DescriptionValid(b.description)
        \/ f = "Status" /\ ~BindStatus(b).ok
        \/ f = "Priority" /\ ~BindPriority(b).ok
        \/ f = "DueDate" /\ b.dueDate # None /\ Val(b.dueDate).kind # "date"}

(* What binding and validation answer for each body. *)
CreateErrors == [b \in BodyIds |-> CreateDtoErrors(Bodies[b])]
UpdateErrors == [b \in BodyIds |-> TaskItemErrors(Bodies[b])]

----------------------------------------------------------------------------
(* Rows of table Tasks (TaskItem). *)

TaskItem(id, title, description, status, priority, createdAt, updatedAt, dueDate) ==
    [id |-> id, title |-> title, description |-> description, status |-> status,
     priority |-> priority, createdAt |-> createdAt, updatedAt |-> updatedAt,
     dueDate |-> dueDate]

(* Primary key: HasKey(e => e.Id) on an int makes the column an identity    *)
(* column; the database hands out the next value of its sequence on INSERT  *)
(* and never hands a value out twice.                                       *)
GeneratedIdReusingGaps(rows, seq) ==
    IF DOMAIN rows = {} THEN 1
    ELSE 1 + CHOOSE m \in DOMAIN rows : \A i \in DOMAIN rows : i <= m

GeneratedId(rows, seq) == seq

(* CreateTask: the object initializer and the due date conversion. *)
NewTaskItem(b, t) ==
    TaskItem(0, Val(b.title), b.description, BindStatus(b).val, BindPriority(b).val,
             t, Some(t),
             IF ~IsNullOrEmptyDate(b.dueDate) THEN TryParseDate(Val(b.dueDate)) ELSE None)

(* UpdateTask: the property assignments on the tracked entity. *)
AssignUpdateWithBodyCreatedAt(existing, b, t) ==
    TaskItem(existing.id, Val(b.title), b.description, BindStatus(b).val,
             BindPriority(b).val,
             IF b.createdAt = None THEN t ELSE Val(b.createdAt),
             Some(t),
             IF b.dueDate = None THEN None ELSE TryParseDate(Val(b.dueDate)))

AssignUpdateWithBodyUpdatedAt(existing, b, t) ==
    TaskItem(existing.id, Val(b.title), b.description, BindStatus(b).val,
             BindPriority(b).val, existing.createdAt,
             b.updatedAt,
             IF b.dueDate = None THEN None ELSE TryParseDate(Val(b.dueDate)))

AssignUpdate(existing, b, t) ==
    TaskItem(existing.id, Val(b.title), b.description, BindStatus(b).val,
             BindPriority(b).val, existing.createdAt,
             Some(t),
             IF b.dueDate = None THEN None ELSE TryParseDate(Val(b.dueDate)))

(* SaveChangesAsync of a tracked entity: the UPDATE sets the columns whose  *)
(* value differs from the value FindAsync loaded, and only those.           *)
Modified(snap, new) ==
    {f \in {"title", "description", "status", "priority", "createdAt",
            "updatedAt", "dueDate"} : new[f] # snap[f]}

WriteColumns(row, new, cols) ==
    TaskItem(row.id,
             IF "title" \in cols THEN new.title ELSE row.title,
             IF "description" \in cols THEN new.description ELSE row.description,
             IF "status" \in cols THEN new.status ELSE row.status,
             IF "priority" \in cols THEN new.priority ELSE row.priority,
             IF "createdAt" \in cols THEN new.createdAt ELSE row.createdAt,
             IF "updatedAt" \in cols THEN new.updatedAt ELSE row.updatedAt,
             IF "dueDate" \in cols THEN new.dueDate ELSE row.dueDate)

(* GetTasks: ORDER BY "CreatedAt" DESC.  Rows with equal CreatedAt come in  *)
(* whatever order the database produces.                                    *)
OrderByDescendingCreatedAt(rows) ==
    {s \in [1..Cardinality(DOMAIN rows) -> DOMAIN rows] :
        /\ \A i, j \in DOMAIN s : i # j => s[i] # s[j]
        /\ \A i, j \in DOMAIN s : i < j => rows[s[i]].createdAt >= rows[s[j]].createdAt}

----------------------------------------------------------------------------
(* The React frontend: data of App (App.tsx), TaskForm and TaskApiService.  *)
(* Dates are whole days; the text of a date and its date part are that day. *)

MaxOps == 2     \* requests the user starts in one behaviour, after the load at mount
MaxNet == 2     \* requests of the frontend in flight at the same time

NetSlots == 1..MaxNet

(* String.prototype.trim *)
RECURSIVE TrimStart(_)
TrimStart(s) == IF s # <<>> /\ Head(s) = " " THEN TrimStart(Tail(s)) ELSE s

RECURSIVE TrimEnd(_)
TrimEnd(s) == IF s # <<>> /\ s[Len(s)] = " " THEN TrimEnd(SubSeq(s, 1, Len(s) - 1)) ELSE s

TrimStartOnly(s) == TrimStart(s)

Trim(s) == TrimEnd(TrimStart(s))

(* A task as the service writes it in a response body, which is a Task of   *)
(* the frontend: enums as JsonStringEnumConverter writes them.              *)
JsonWriteTask(row) ==
    [id |-> row.id, title |-> row.title, description |-> row.description,
     status |-> JsonWriteEnum(StatusNames, row.status),
     priority |-> JsonWriteEnum(PriorityNames, row.priority),
     createdAt |-> row.createdAt, updatedAt |-> row.updatedAt, dueDate |-> row.dueDate]

(* formData of TaskForm; description and title are texts, dueDate is None   *)
(* for the empty text.                                                      *)
FormData(title, description, status, priority, dueDate) ==
    [title |-> title, description |-> description, status |-> status,
     priority |-> priority, dueDate |-> dueDate]

(* useState initial value of formData *)
FormDefaults == FormData(<<>>, <<>>, Pending, Medium, None)

(* useEffect([task]): the form is filled from the task being edited. *)
FormFromTask(task) ==
    FormData(task.title,
             IF task.description = None THEN <<>> ELSE Val(task.description),
             normalizeTaskStatus(task.status),
             normalizeTaskPriority(task.priority),
             task.dueDate)

(* formData of a TaskForm that mounts while editingTask is e *)
FormMounted(e) == IF e = None THEN FormDefaults ELSE FormFromTask(Val(e))

(* submitData of handleSubmit, with id when a task is being edited *)
SubmitData(formData, e) ==
    [id |-> IF e = None THEN None ELSE Some(Val(e).id),
     title |-> Trim(formData.title),
     description |-> IF Trim(formData.description) = <<>> THEN None
                     ELSE Some(Trim(formData.description)),
     status |-> formData.status,
     priority |-> formData.priority,
     dueDate |-> formData.dueDate]

NoData == [id |-> None, title |-> <<>>, description |-> None, status |-> Pending,
           priority |-> Medium, dueDate |-> None]

(* JSON.stringify(task) as the service's model binding reads it: fields     *)
(* that are undefined are left out, enums are numbers.                      *)
BodyOf(data) ==
    Body(Some(data.title), data.description, Some(Num(data.status)),
         Some(Num(data.priority)),
         IF data.dueDate = None THEN None ELSE Some(DateStr(Val(data.dueDate))),
         None, None)

(* A request of TaskApiService: sent, or answered (ok: response.ok) with    *)
(* the tasks of the response body.                                          *)
Fetch(kind, id, data, phase, result) ==
    [kind |-> kind, id |-> id, data |-> data, phase |-> phase, result |-> result]

NoFetch == Fetch("none", 0, NoData, "none", <<>>)

(* State of App: the useState values, formData and errors.title of the      *)
(* TaskForm, the requests in flight, and what has happened so far: the      *)
(* answers window.confirm gave, the number of requests and prompts         *)
(* the user started, whether every request so far ran alone and succeeded.  *)
AppUnmounted ==
    [mounted |-> FALSE, tasks |-> <<>>, loading |-> TRUE, error |-> None,
     isFormOpen |-> FALSE, editingTask |-> None, isSubmitting |-> FALSE,
     formData |-> FormDefaults, titleError |-> None,
     net |-> [k \in NetSlots |-> NoFetch],
     confirms |-> <<>>, ops |-> 0, oneAtATime |-> TRUE]

StatsIdle == [tasks |-> <<>>, now |-> 0, shown |-> "none",
              pending |-> <<>>, overdue |-> <<>>, dueSoon |-> <<>>, other |-> <<>>]

----------------------------------------------------------------------------
(* Requests *)

NoRow == TaskItem(0, <<>>, None, 0, 0, 0, None, None)

(* A request waiting for SaveChangesAsync: the entity FindAsync loaded      *)
(* (snap) and the entity after the handler's assignments (new).             *)
Request(op, id, body, snap, new) ==
    [op |-> op, id |-> id, body |-> body, snap |-> snap, new |-> new]

Idle == Request("none", 0, 0, NoRow, NoRow)

(* A response: the operation and path id it answers, status code, error    *)
(* payload (BadRequest(ModelState) names the fields that failed; the other  *)
(* errors are one message), tasks of the payload.                           *)
Response(op, id, status, error, out) ==
    [op |-> op, id |-> id, status |-> status, error |-> error, out |-> out]

NoResponse == Response("none", 0, 0, {}, <<>>)

InFlight(r) == req[r] # Idle

(* A new request is served on the first slot that is free. *)
Accepts(r) ==
    /\ nreq < MaxRequests
    /\ ~InFlight(r)
    /\ \A q \in Slots : q < r => InFlight(q)

Init ==
    /\ store = [i \in {} |-> NoRow]
    /\ nextId = 1
    /\ now = 0
    /\ req = [r \in Slots |-> Idle]
    /\ resp = NoResponse
    /\ nreq = 0
    /\ createLog = <<>>
    /\ updatedIds = {}
    /\ lastUpdate = <<>>
    /\ deletedIds = {}
    /\ enumIn = [field |-> "status", a |-> Num(0), b |-> Num(0)]
    /\ enumOut = [done |-> FALSE, serverA |-> JsonReadEnum(StatusNames, Num(0)),
                  serverB |-> JsonReadEnum(StatusNames, Num(0)), clientA |-> 0,
                  clientB |-> 0]
    /\ app = AppUnmounted
    /\ stats = StatsIdle

(* DateTime.UtcNow advances. *)
Tick ==
    /\ now < MaxTime
    /\ now' = now + 1
    /\ UNCHANGED <<store, nextId, req, resp, nreq, createLog, updatedIds, lastUpdate, deletedIds, enumIn, enumOut, app, stats>>

(* GET api/tasks *)
GetTasks(r) ==
    /\ Accepts(r)
    /\ \E s \in OrderByDescendingCreatedAt(store) :
          resp' = Response("list", 0, 200, {}, [i \in DOMAIN s |-> store[s[i]]])
    /\ nreq' = nreq + 1
    /\ UNCHANGED <<store, nextId, now, req, createLog, updatedIds, lastUpdate, deletedIds, enumIn, enumOut, app, stats>>

(* GET api/tasks/{id} *)
GetTaskWithoutNullCheck(r, id) ==
    /\ Accepts(r)
    /\ resp' = Response("get", id, 200, {},
                        <<IF id \in DOMAIN store THEN store[id] ELSE NoRow>>)
    /\ nreq' = nreq + 1
    /\ UNCHANGED <<store, nextId, now, req, createLog, updatedIds, lastUpdate, deletedIds,
                   enumIn, enumOut, app, stats>>

GetTask(r, id) ==
    /\ Accepts(r)
    /\ resp' = IF id \in DOMAIN store
               THEN Response("get", id, 200, {}, <<store[id]>>)
               ELSE Response("get", id, 404, {"Task not found"}, <<>>)
    /\ nreq' = nreq + 1
    /\ UNCHANGED <<store, nextId, now, req, createLog, updatedIds, lastUpdate, deletedIds, enumIn, enumOut, app, stats>>

(* POST api/tasks *)
CreateTask(r, b) ==
    /\ Accepts(r)
    /\ nreq' = nreq + 1
    /\ IF CreateErrors[b] # {}
       THEN /\ resp' = Response("create", 0, 400, CreateErrors[b], <<>>)
            /\ UNCHANGED <<store, nextId, createLog>>
       ELSE /\ nextId <= MaxTasks
            /\ LET id == GeneratedId(store, nextId)
                   task == [NewTaskItem(Bodies[b], now) EXCEPT !.id = id]
               IN /\ store' = [i \in DOMAIN store \cup {id} |->
                                  IF i = id THEN task ELSE store[i]]
                  /\ resp' = Response("create", id, 201, {}, <<task>>)
                  /\ createLog' = Append(createLog, id)
            /\ nextId' = nextId + 1
    /\ UNCHANGED <<now, req, updatedIds, lastUpdate, deletedIds, enumIn, enumOut, app, stats>>

(* PUT api/tasks/{id}, up to the await of SaveChangesAsync: binding and     *)
(* validation, the id check, FindAsync, the assignments.                    *)
UpdateTaskFindBeforeIdCheck(r, id, bodyId, b) ==
    /\ Accepts(r)
    /\ nreq' = nreq + 1
    /\ IF UpdateErrors[b] # {}
       THEN resp' = Response("update", id, 400, UpdateErrors[b], <<>>) /\ UNCHANGED req
       ELSE IF id \notin DOMAIN store
       THEN resp' = Response("update", id, 404, {"Task not found"}, <<>>) /\ UNCHANGED req
       ELSE IF id # bodyId
       THEN resp' = Response("update", id, 400, {"ID mismatch"}, <<>>) /\ UNCHANGED req
       ELSE /\ req' = [req EXCEPT ![r] =
                         Request("update", id, b, store[id],
                                 AssignUpdate(store[id], Bodies[b], now))]
            /\ UNCHANGED resp
    /\ UNCHANGED <<store, nextId, now, createLog, updatedIds, lastUpdate, deletedIds, enumIn, enumOut, app, stats>>

UpdateTaskWithoutNullCheck(r, id, bodyId, b) ==
    /\ Accepts(r)
    /\ nreq' = nreq + 1
    /\ IF UpdateErrors[b] # {}
       THEN resp' = Response("update", id, 400, UpdateErrors[b], <<>>) /\ UNCHANGED req
       ELSE IF id # bodyId
       THEN resp' = Response("update", id, 400, {"ID mismatch"}, <<>>) /\ UNCHANGED req
       ELSE /\ req' = [req EXCEPT ![r] =
                         LET existing == IF id \in DOMAIN store THEN store[id]
                                         ELSE [NoRow EXCEPT !.id = id]
                         IN Request("update", id, b, existing,
                                    AssignUpdate(existing, Bodies[b], now))]
            /\ UNCHANGED resp
    /\ UNCHANGED <<store, nextId, now, createLog, updatedIds, lastUpdate, deletedIds,
                   enumIn, enumOut, app, stats>>

UpdateTask(r, id, bodyId, b) ==
    /\ Accepts(r)
    /\ nreq' = nreq + 1
    /\ IF UpdateErrors[b] # {}
       THEN resp' = Response("update", id, 400, UpdateErrors[b], <<>>) /\ UNCHANGED req
       ELSE IF id # bodyId
       THEN resp' = Response("update", id, 400, {"ID mismatch"}, <<>>) /\ UNCHANGED req
       ELSE IF id \notin DOMAIN store
       THEN resp' = Response("update", id, 404, {"Task not found"}, <<>>) /\ UNCHANGED req
       ELSE /\ req' = [req EXCEPT ![r] =
                         Request("update", id, b, store[id],
                                 AssignUpdate(store[id], Bodies[b], now))]
            /\ UNCHANGED resp
    /\ UNCHANGED <<store, nextId, now, createLog, updatedIds, lastUpdate, deletedIds, enumIn, enumOut, app, stats>>

(* PUT, SaveChangesAsync: nothing modified sends no statement; an UPDATE    *)
(* that matches no row raises DbUpdateConcurrencyException, which the catch *)
(* turns into 500.                                                          *)
UpdateTaskSave(r) ==
    /\ req[r].op = "update"
    /\ LET id == req[r].id
           cols == Modified(req[r].snap, req[r].new)
       IN IF cols # {} /\ id \notin DOMAIN store
          THEN /\ resp' = Response("update", id, 500, {"Internal server error"}, <<>>)
               /\ UNCHANGED <<store, updatedIds, lastUpdate>>
          ELSE /\ store' = IF cols = {} THEN store
                           ELSE [store EXCEPT ![id] = WriteColumns(@, req[r].new, cols)]
               /\ resp' = Response("update", id, 204, {}, <<>>)
               /\ updatedIds' = updatedIds \cup {id}
               /\ lastUpdate' = [i \in DOMAIN lastUpdate \cup {id} |->
                                    IF i = id THEN req[r].body ELSE lastUpdate[i]]
    /\ req' = [req EXCEPT ![r] = Idle]
    /\ UNCHANGED <<nextId, now, nreq, createLog, deletedIds, enumIn, enumOut, app, stats>>

(* DELETE api/tasks/{id}, up to the await of SaveChangesAsync. *)
DeleteTaskWithoutNullCheck(r, id) ==
    /\ Accepts(r)
    /\ nreq' = nreq + 1
    /\ req' = [req EXCEPT ![r] =
                 Request("delete", id, 0,
                         IF id \in DOMAIN store THEN store[id] ELSE NoRow, NoRow)]
    /\ UNCHANGED <<store, nextId, now, resp, createLog, updatedIds, lastUpdate, deletedIds, enumIn, enumOut, app, stats>>

DeleteTask(r, id) ==
    /\ Accepts(r)
    /\ nreq' = nreq + 1
    /\ IF id \notin DOMAIN store
       THEN resp' = Response("delete", id, 404, {"Task not found"}, <<>>) /\ UNCHANGED req
       ELSE /\ req' = [req EXCEPT ![r] = Request("delete", id, 0, store[id], NoRow)]
            /\ UNCHANGED resp
    /\ UNCHANGED <<store, nextId, now, createLog, updatedIds, lastUpdate, deletedIds, enumIn, enumOut, app, stats>>

(* DELETE, SaveChangesAsync: a DELETE that matches no row raises            *)
(* DbUpdateConcurrencyException, which the catch turns into 500.            *)
DeleteTaskSaveKeepingRow(r) ==
    /\ req[r].op = "delete"
    /\ resp' = Response("delete", req[r].id, 204, {}, <<>>)
    /\ deletedIds' = deletedIds \cup {req[r].id}
    /\ req' = [req EXCEPT ![r] = Idle]
    /\ UNCHANGED <<store, nextId, now, nreq, createLog, updatedIds, lastUpdate, enumIn,
                   enumOut, app, stats>>

DeleteTaskSave(r) ==
    /\ req[r].op = "delete"
    /\ LET id == req[r].id
       IN IF id \in DOMAIN store
          THEN /\ store' = [i \in DOMAIN store \ {id} |-> store[i]]
               /\ resp' = Response("delete", id, 204, {}, <<>>)
               /\ deletedIds' = deletedIds \cup {id}
          ELSE /\ resp' = Response("delete", id, 500, {"Internal server error"}, <<>>)
               /\ UNCHANGED <<store, deletedIds>>
    /\ req' = [req EXCEPT ![r] = Idle]
    /\ UNCHANGED <<nextId, now, nreq, createLog, updatedIds, lastUpdate, enumIn, enumOut, app, stats>>

Next ==
    \/ Tick
    \/ \E r \in Slots : GetTasks(r)
    \/ \E r \in Slots, id \in PathIds : GetTask(r, id)
    \/ \E r \in Slots, b \in BodyIds : CreateTask(r, b)
    \/ \E r \in Slots, id \in PathIds, b \in BodyIds :
          \E bodyId \in BodyIdsFor(id) : UpdateTask(r, id, bodyId, b)
    \/ \E r \in Slots : UpdateTaskSave(r)
    \/ \E r \in Slots, id \in PathIds : DeleteTask(r, id)
    \/ \E r \in Slots : DeleteTaskSave(r)

Spec == Init /\ [][Next]_vars

----------------------------------------------------------------------------
(* The service over a store that can fail.  A database access that fails    *)
(* throws; every handler's catch answers 500.  A failed statement has no    *)
(* effect on the table (SaveChangesAsync is one transaction), but a failed  *)
(* INSERT may have drawn its id: the identity sequence is not rolled back.  *)

ServerError(op, id) == Response(op, id, 500, {"Internal server error"}, <<>>)

(* GET api/tasks, ToListAsync throws. *)
GetTasksFails(r) ==
    /\ Accepts(r)
    /\ nreq' = nreq + 1
    /\ resp' = ServerError("list", 0)
    /\ UNCHANGED <<store, nextId, now, req, createLog, updatedIds, lastUpdate, deletedIds,
                   enumIn, enumOut, app, stats>>

(* GET api/tasks/{id}, FindAsync throws. *)
GetTaskFails(r, id) ==
    /\ Accepts(r)
    /\ nreq' = nreq + 1
    /\ resp' = ServerError("get", id)
    /\ UNCHANGED <<store, nextId, now, req, createLog, updatedIds, lastUpdate, deletedIds,
                   enumIn, enumOut, app, stats>>

(* POST api/tasks with a valid body, SaveChangesAsync throws. *)
CreateTaskFails(r) ==
    /\ Accepts(r)
    /\ {b \in BodyIds : CreateErrors[b] = {}} # {}
    /\ nextId <= MaxTasks
    /\ nreq' = nreq + 1
    /\ resp' = ServerError("create", 0)
    /\ nextId' \in {nextId, nextId + 1}
    /\ UNCHANGED <<store, now, req, createLog, updatedIds, lastUpdate, deletedIds,
                   enumIn, enumOut, app, stats>>

(* PUT api/tasks/{id} with matching ids and a valid body, FindAsync throws. *)
UpdateTaskFails(r, id) ==
    /\ Accepts(r)
    /\ {b \in BodyIds : UpdateErrors[b] = {}} # {}
    /\ nreq' = nreq + 1
    /\ resp' = ServerError("update", id)
    /\ UNCHANGED <<store, nextId, now, req, createLog, updatedIds, lastUpdate, deletedIds,
                   enumIn, enumOut, app, stats>>

(* PUT, SaveChangesAsync throws: the assignments stay on the tracked entity *)
(* and go away with the request's DbContext.                                *)
UpdateTaskSaveFailsAfterWrite(r) ==
    /\ req[r].op = "update"
    /\ req[r].id \in DOMAIN store
    /\ store' = [store EXCEPT ![req[r].id] = req[r].new]
    /\ resp' = ServerError("update", req[r].id)
    /\ req' = [req EXCEPT ![r] = Idle]
    /\ UNCHANGED <<nextId, now, nreq, createLog, updatedIds, lastUpdate, deletedIds,
                   enumIn, enumOut, app, stats>>

UpdateTaskSaveFails(r) ==
    /\ req[r].op = "update"
    /\ resp' = ServerError("update", req[r].id)
    /\ req' = [req EXCEPT ![r] = Idle]
    /\ UNCHANGED <<store, nextId, now, nreq, createLog, updatedIds, lastUpdate, deletedIds,
                   enumIn, enumOut, app, stats>>

(* DELETE api/tasks/{id}, FindAsync throws. *)
DeleteTaskFails(r, id) ==
    /\ Accepts(r)
    /\ nreq' = nreq + 1
    /\ resp' = ServerError("delete", id)
    /\ UNCHANGED <<store, nextId, now, req, createLog, updatedIds, lastUpdate, deletedIds,
                   enumIn, enumOut, app, stats>>

(* DELETE, SaveChangesAsync throws. *)
DeleteTaskSaveFails(r) ==
    /\ req[r].op = "delete"
    /\ resp' = ServerError("delete", req[r].id)
    /\ req' = [req EXCEPT ![r] = Idle]
    /\ UNCHANGED <<store, nextId, now, nreq, createLog, updatedIds, lastUpdate, deletedIds,
                   enumIn, enumOut, app, stats>>

NextFault ==
    \/ Next
    \/ \E r \in Slots : GetTasksFails(r)
    \/ \E r \in Slots, id \in PathIds : GetTaskFails(r, id)
    \/ \E r \in Slots : CreateTaskFails(r)
    \/ \E r \in Slots, id \in PathIds : UpdateTaskFails(r, id)
    \/ \E r \in Slots : UpdateTaskSaveFails(r)
    \/ \E r \in Slots, id \in PathIds : DeleteTaskFails(r, id)
    \/ \E r \in Slots : DeleteTaskSaveFails(r)

SpecFault == Init /\ [][NextFault]_vars

----------------------------------------------------------------------------
(* The React frontend against the service.  One action is one event         *)
(* handler up to its await, the continuation of a handler after its await,  *)
(* or the service answering one request.  The dialog is modal: while it is  *)
(* open only the form and the dialog's own controls take events; while      *)
(* loading is true App renders the loading screen alone.                    *)

ErrFetch == "Failed to fetch tasks. Please check if the backend is running."
ErrCreate == "Failed to create task. Please try again."
ErrUpdate == "Failed to update task. Please try again."
ErrDelete == "Failed to delete task. Please try again."
ErrTitle == "Title is required"

(* Texts the user types into the title input. *)
TitleInputs == {<<>>, <<" ">>, <<"a">>, <<" ", "b", " ">>}

(* Stores the frontend can meet when it mounts: rows other clients created. *)
InitialStores ==
    {[i \in {} |-> NoRow],
     [i \in {1} |-> TaskItem(1, <<"t">>, Some(<<"d">>), Pending, High, 0, Some(0), Some(1))]}

others == <<now, req, resp, nreq, createLog, updatedIds, lastUpdate, deletedIds,
            enumIn, enumOut, stats>>

InitApp ==
    /\ store \in InitialStores
    /\ nextId = Cardinality(DOMAIN store) + 1
    /\ now = 0
    /\ req = [r \in Slots |-> Idle]
    /\ resp = NoResponse
    /\ nreq = 0
    /\ createLog = <<>>
    /\ updatedIds = {}
    /\ lastUpdate = <<>>
    /\ deletedIds = {}
    /\ enumIn = [field |-> "status", a |-> Num(0), b |-> Num(0)]
    /\ enumOut = [done |-> FALSE, serverA |-> JsonReadEnum(StatusNames, Num(0)),
                  serverB |-> JsonReadEnum(StatusNames, Num(0)), clientA |-> 0,
                  clientB |-> 0]
    /\ app = AppUnmounted
    /\ stats = StatsIdle

Busy == \E k \in NetSlots : app.net[k] # NoFetch

FreeSlot(k) ==
    /\ app.net[k] = NoFetch
    /\ \A j \in NetSlots : j < k => app.net[j] # NoFetch

(* The page with its buttons and cards is shown and takes events. *)
PageShown == app.mounted /\ ~app.loading /\ ~app.isFormOpen

(* The TaskForm is mounted and takes events. *)
FormShown == app.mounted /\ ~app.loading /\ app.isFormOpen

(* fetchTasks up to its await: at mount (useEffect) and on Refresh. *)
Mount ==
    /\ ~app.mounted
    /\ app' = [app EXCEPT !.mounted = TRUE, !.loading = TRUE, !.error = None,
                          !.net[1] = Fetch("list", 0, NoData, "sent", <<>>)]
    /\ UNCHANGED <<store, nextId, others>>

Refresh(k) ==
    /\ PageShown
    /\ app.ops < MaxOps
    /\ FreeSlot(k)
    /\ app' = [app EXCEPT !.loading = TRUE, !.error = None,
                          !.net[k] = Fetch("list", 0, NoData, "sent", <<>>),
                          !.ops = @ + 1,
                          !.oneAtATime = @ /\ ~Busy]
    /\ UNCHANGED <<store, nextId, others>>

(* fetchTasks after its await: setTasks or setError, finally setLoading.    *)
(* The form mounts again when the dialog was left open.                     *)
FetchTasksDone(k) ==
    /\ app.net[k].kind = "list"
    /\ app.net[k].phase \in {"ok", "failed"}
    /\ app' = [app EXCEPT
                 !.tasks = IF app.net[k].phase = "ok" THEN app.net[k].result ELSE @,
                 !.error = IF app.net[k].phase = "ok" THEN @ ELSE Some(ErrFetch),
                 !.loading = FALSE,
                 !.formData = IF app.isFormOpen THEN FormMounted(app.editingTask)
                              ELSE FormDefaults,
                 !.oneAtATime = @ /\ app.net[k].phase = "ok",
                 !.net[k] = NoFetch]
    /\ UNCHANGED <<store, nextId, others>>

(* Add Task (DialogTrigger): onOpenChange(true) = setIsFormOpen(true). *)
OpenAddTask ==
    /\ PageShown
    /\ app' = [app EXCEPT !.isFormOpen = TRUE,
                          !.formData = FormMounted(app.editingTask),
                          !.titleError = None]
    /\ UNCHANGED <<store, nextId, others>>

(* The dialog's own close control, Escape, a click outside:                 *)
(* onOpenChange(false) = setIsFormOpen(false).                              *)
DialogClose ==
    /\ FormShown
    /\ app' = [app EXCEPT !.isFormOpen = FALSE,
                          !.formData = FormDefaults,
                          !.titleError = None]
    /\ UNCHANGED <<store, nextId, others>>

(* Edit button of a card. *)
HandleEditTask(i) ==
    /\ PageShown
    /\ i \in DOMAIN app.tasks
    /\ app' = [app EXCEPT !.editingTask = Some(app.tasks[i]),
                          !.isFormOpen = TRUE,
                          !.formData = FormFromTask(app.tasks[i]),
                          !.titleError = None]
    /\ UNCHANGED <<store, nextId, others>>

(* Cancel button of the form (disabled while isSubmitting). *)
HandleFormCancel ==
    /\ FormShown
    /\ ~app.isSubmitting
    /\ app' = [app EXCEPT !.isFormOpen = FALSE,
                          !.editingTask = None,
                          !.formData = FormDefaults,
                          !.titleError = None]
    /\ UNCHANGED <<store, nextId, others>>

(* TaskForm.handleInputChange: typing a title, selecting a status.  It      *)
(* clears the error of the field.                                           *)
HandleInputChange(field, value) ==
    /\ FormShown
    /\ app.formData[field] # value
    /\ app' = [app EXCEPT !.formData[field] = value,
                          !.titleError = IF field = "title" THEN None ELSE @]
    /\ UNCHANGED <<store, nextId, others>>

(* Dismiss button of the error message. *)
Dismiss ==
    /\ PageShown
    /\ app.error # None
    /\ app' = [app EXCEPT !.error = None]
    /\ UNCHANGED <<store, nextId, others>>

(* TaskForm.handleSubmit, then App.handleFormSubmit and handleCreateTask or *)
(* handleUpdateTask up to the await.  The submit button is disabled while   *)
(* isSubmitting.                                                            *)
HandleSubmit(k) ==
    /\ FormShown
    /\ ~app.isSubmitting
    /\ IF Trim(app.formData.title) = <<>>
       THEN /\ k = 1
            /\ app' = [app EXCEPT !.titleError = Some(ErrTitle)]
       ELSE LET data == SubmitData(app.formData, app.editingTask)
            IN  /\ FreeSlot(k)
                /\ app.ops < MaxOps
                /\ data.id = None => nextId <= MaxTasks
                /\ app' = [app EXCEPT
                             !.titleError = None,
                             !.isSubmitting = TRUE,
                             !.net[k] = IF data.id = None
                                        THEN Fetch("create", 0, data, "sent", <<>>)
                                        ELSE Fetch("update", Val(data.id), data, "sent", <<>>),
                             !.ops = @ + 1,
                             !.oneAtATime = @ /\ ~Busy]
    /\ UNCHANGED <<store, nextId, others>>

(* handleCreateTask after its await. *)
HandleCreateTaskDoneWithoutFinally(k) ==
    /\ app.net[k].kind = "create"
    /\ app.net[k].phase \in {"ok", "failed"}
    /\ app' = IF app.net[k].phase = "ok"
              THEN [app EXCEPT !.tasks = app.net[k].result \o @,
                               !.isFormOpen = FALSE,
                               !.formData = FormDefaults,
                               !.titleError = None,
                               !.isSubmitting = FALSE,
                               !.net[k] = NoFetch]
              ELSE [app EXCEPT !.error = Some(ErrCreate),
                               !.oneAtATime = FALSE,
                               !.net[k] = NoFetch]
    /\ UNCHANGED <<store, nextId, others>>

HandleCreateTaskDone(k) ==
    /\ app.net[k].kind = "create"
    /\ app.net[k].phase \in {"ok", "failed"}
    /\ app' = IF app.net[k].phase = "ok"
              THEN [app EXCEPT !.tasks = app.net[k].result \o @,
                               !.isFormOpen = FALSE,
                               !.formData = FormDefaults,
                               !.titleError = None,
                               !.isSubmitting = FALSE,
                               !.net[k] = NoFetch]
              ELSE [app EXCEPT !.error = Some(ErrCreate),
                               !.isSubmitting = FALSE,
                               !.oneAtATime = FALSE,
                               !.net[k] = NoFetch]
    /\ UNCHANGED <<store, nextId, others>>

(* The task of the list merged with the submitted data:                     *)
(* {...task, ...taskData, updatedAt: new Date().toISOString()}.             *)
MergeTaskKeepingTitle(task, data, t) ==
    [id |-> Val(data.id), title |-> task.title, description |-> data.description,
     status |-> Num(data.status), priority |-> Num(data.priority),
     createdAt |-> task.createdAt, updatedAt |-> Some(t), dueDate |-> data.dueDate]

MergeTask(task, data, t) ==
    [id |-> Val(data.id), title |-> data.title, description |-> data.description,
     status |-> Num(data.status), priority |-> Num(data.priority),
     createdAt |-> task.createdAt, updatedAt |-> Some(t), dueDate |-> data.dueDate]

(* handleUpdateTask after its await. *)
HandleUpdateTaskDone(k) ==
    /\ app.net[k].kind = "update"
    /\ app.net[k].phase \in {"ok", "failed"}
    /\ app' = IF app.net[k].phase = "ok"
              THEN [app EXCEPT
                      !.tasks = [i \in DOMAIN app.tasks |->
                                   IF app.tasks[i].id = app.net[k].id
                                   THEN MergeTask(app.tasks[i], app.net[k].data, now)
                                   ELSE app.tasks[i]],
                      !.editingTask = None,
                      !.isSubmitting = FALSE,
                      !.net[k] = NoFetch]
              ELSE [app EXCEPT !.error = Some(ErrUpdate),
                               !.isSubmitting = FALSE,
                               !.oneAtATime = FALSE,
                               !.net[k] = NoFetch]
    /\ UNCHANGED <<store, nextId, others>>

(* Delete button of a card: handleDeleteTask up to its await.  confirmed is *)
(* what window.confirm returns.                                             *)
HandleDeleteTaskWithoutConfirm(i, confirmed, k) ==
    /\ PageShown
    /\ i \in DOMAIN app.tasks
    /\ app.ops < MaxOps
    /\ FreeSlot(k)
    /\ app' = [app EXCEPT
                 !.confirms = Append(@, confirmed),
                 !.net[k] = Fetch("delete", app.tasks[i].id, NoData, "sent", <<>>),
                 !.ops = @ + 1,
                 !.oneAtATime = @ /\ ~Busy]
    /\ UNCHANGED <<store, nextId, others>>

HandleDeleteTask(i, confirmed, k) ==
    /\ PageShown
    /\ i \in DOMAIN app.tasks
    /\ app.ops < MaxOps
    /\ IF ~confirmed
       THEN /\ k = 1
            /\ app' = [app EXCEPT !.confirms = Append(@, FALSE), !.ops = @ + 1]
       ELSE /\ FreeSlot(k)
            /\ app' = [app EXCEPT
                         !.confirms = Append(@, TRUE),
                         !.net[k] = Fetch("delete", app.tasks[i].id, NoData, "sent", <<>>),
                         !.ops = @ + 1,
                         !.oneAtATime = @ /\ ~Busy]
    /\ UNCHANGED <<store, nextId, others>>

RECURSIVE Filter(_, _)
Filter(tasks, id) ==
    IF tasks = <<>> THEN <<>>
    ELSE IF Head(tasks).id # id THEN <<Head(tasks)>> \o Filter(Tail(tasks), id)
    ELSE Filter(Tail(tasks), id)

(* handleDeleteTask after its await. *)
HandleDeleteTaskDoneRemovingAnyway(k) ==
    /\ app.net[k].kind = "delete"
    /\ app.net[k].phase \in {"ok", "failed"}
    /\ app' = IF app.net[k].phase = "ok"
              THEN [app EXCEPT !.tasks = Filter(@, app.net[k].id),
                               !.net[k] = NoFetch]
              ELSE [app EXCEPT !.tasks = Filter(@, app.net[k].id),
                               !.error = Some(ErrDelete),
                               !.oneAtATime = FALSE,
                               !.net[k] = NoFetch]
    /\ UNCHANGED <<store, nextId, others>>

HandleDeleteTaskDone(k) ==
    /\ app.net[k].kind = "delete"
    /\ app.net[k].phase \in {"ok", "failed"}
    /\ app' = IF app.net[k].phase = "ok"
              THEN [app EXCEPT !.tasks = Filter(@, app.net[k].id),
                               !.net[k] = NoFetch]
              ELSE [app EXCEPT !.error = Some(ErrDelete),
                               !.oneAtATime = FALSE,
                               !.net[k] = NoFetch]
    /\ UNCHANGED <<store, nextId, others>>

(* The service handles the request of slot k: the controller action as one  *)
(* step, the database call succeeding.                                      *)
Answer(k, ok, result) ==
    app' = [app EXCEPT !.net[k].phase = IF ok THEN "ok" ELSE "failed",
                       !.net[k].result = result]

ServeGetTasks(k) ==
    /\ app.net[k].kind = "list"
    /\ app.net[k].phase = "sent"
    /\ \E s \in OrderByDescendingCreatedAt(store) :
          Answer(k, TRUE, [i \in 1..Len(s) |-> JsonWriteTask(store[s[i]])])
    /\ UNCHANGED <<store, nextId, others>>

ServeCreateTask(k) ==
    /\ app.net[k].kind = "create"
    /\ app.net[k].phase = "sent"
    /\ LET b == BodyOf(app.net[k].data)
           task == [NewTaskItem(b, now) EXCEPT !.id = GeneratedId(store, nextId)]
       IN  IF CreateDtoErrors(b) # {}
           THEN /\ Answer(k, FALSE, <<>>)
                /\ UNCHANGED <<store, nextId>>
           ELSE /\ store' = [i \in DOMAIN store \cup {task.id} |->
                               IF i = task.id THEN task ELSE store[i]]
                /\ nextId' = task.id + 1
                /\ Answer(k, TRUE, <<JsonWriteTask(task)>>)
    /\ UNCHANGED others

ServeUpdateTask(k) ==
    /\ app.net[k].kind = "update"
    /\ app.net[k].phase = "sent"
    /\ LET b == BodyOf(app.net[k].data)
           id == app.net[k].id
       IN  IF TaskItemErrors(b) # {} \/ id \notin DOMAIN store
           THEN /\ Answer(k, FALSE, <<>>)
                /\ store' = store
           ELSE LET new == AssignUpdate(store[id], b, now)
                IN  /\ store' = [store EXCEPT ![id] =
                                   WriteColumns(@, new, Modified(@, new))]
                    /\ Answer(k, TRUE, <<>>)
    /\ UNCHANGED <<nextId, others>>

ServeDeleteTask(k) ==
    /\ app.net[k].kind = "delete"
    /\ app.net[k].phase = "sent"
    /\ LET id == app.net[k].id
       IN  IF id \notin DOMAIN store
           THEN /\ Answer(k, FALSE, <<>>)
                /\ store' = store
           ELSE /\ store' = [i \in DOMAIN store \ {id} |-> store[i]]
                /\ Answer(k, TRUE, <<>>)
    /\ UNCHANGED <<nextId, others>>

(* The request of slot k fails without a change of the table: the service   *)
(* answers 500 or cannot be reached.                                        *)
ServeFails(k) ==
    /\ app.net[k].phase = "sent"
    /\ Answer(k, FALSE, <<>>)
    /\ UNCHANGED <<store, nextId, others>>

NextApp ==
    \/ Mount
    \/ \E k \in NetSlots : Refresh(k)
    \/ \E k \in NetSlots : FetchTasksDone(k)
    \/ OpenAddTask
    \/ DialogClose
    \/ \E i \in 1..MaxTasks : HandleEditTask(i)
    \/ HandleFormCancel
    \/ \E t \in TitleInputs : HandleInputChange("title", t)
    \/ HandleInputChange("status", Completed)
    \/ Dismiss
    \/ \E k \in NetSlots : HandleSubmit(k)
    \/ \E k \in NetSlots : HandleCreateTaskDone(k)
    \/ \E k \in NetSlots : HandleUpdateTaskDone(k)
    \/ \E i \in 1..MaxTasks, confirmed \in BOOLEAN, k \in NetSlots :
          HandleDeleteTask(i, confirmed, k)
    \/ \E k \in NetSlots : HandleDeleteTaskDone(k)
    \/ \E k \in NetSlots : ServeGetTasks(k)
    \/ \E k \in NetSlots : ServeCreateTask(k)
    \/ \E k \in NetSlots : ServeUpdateTask(k)
    \/ \E k \in NetSlots : ServeDeleteTask(k)
    \/ \E k \in NetSlots : ServeFails(k)

SpecApp == InitApp /\ [][NextApp]_vars

(* The requests complete: the service answers every request that was sent   *)
(* (or the request fails), and the continuation of a handler runs once the  *)
(* promise it awaits has settled.                                           *)
Serve(k) ==
    \/ ServeGetTasks(k)
    \/ ServeCreateTask(k)
    \/ ServeUpdateTask(k)
    \/ ServeDeleteTask(k)
    \/ ServeFails(k)

Continue(k) ==
    \/ FetchTasksDone(k)
    \/ HandleCreateTaskDone(k)
    \/ HandleUpdateTaskDone(k)
    \/ HandleDeleteTaskDone(k)

SpecAppLive ==
    /\ InitApp
    /\ [][NextApp]_vars
    /\ \A k \in NetSlots : WF_vars(Serve(k)) /\ WF_vars(Continue(k))

----------------------------------------------------------------------------
(* The enum conversions on their own: a pair of JSON values for one field   *)
(* goes through the server's binding and through the frontend's helper.     *)

MaxCode == 4    \* numeric codes tried: -1..MaxCode

WireValues ==
    {Num(n) : n \in -1..MaxCode}
    \cup {Str(n) : n \in DOMAIN StatusNames \cup DOMAIN PriorityNames}
    \cup {Str("Blocked"), Str("Urgent"), Str("")}

NamesOf(field) == IF field = "status" THEN StatusNames ELSE PriorityNames

InitEnum ==
    /\ store = [i \in {} |-> NoRow]
    /\ nextId = 1
    /\ now = 0
    /\ req = [r \in Slots |-> Idle]
    /\ resp = NoResponse
    /\ nreq = 0
    /\ createLog = <<>>
    /\ updatedIds = {}
    /\ lastUpdate = <<>>
    /\ deletedIds = {}
    /\ enumIn \in [field : {"status", "priority"}, a : WireValues, b : WireValues]
    /\ enumOut = [done |-> FALSE, serverA |-> JsonReadEnum(StatusNames, Num(0)),
                  serverB |-> JsonReadEnum(StatusNames, Num(0)), clientA |-> 0,
                  clientB |-> 0]
    /\ app = AppUnmounted
    /\ stats = StatsIdle

Convert ==
    /\ ~enumOut.done
    /\ enumOut' =
          [done |-> TRUE,
           serverA |-> JsonReadEnum(NamesOf(enumIn.field), enumIn.a),
           serverB |-> JsonReadEnum(NamesOf(enumIn.field), enumIn.b),
           clientA |-> IF enumIn.field = "status" THEN normalizeTaskStatus(enumIn.a)
                       ELSE normalizeTaskPriority(enumIn.a),
           clientB |-> IF enumIn.field = "status" THEN normalizeTaskStatus(enumIn.b)
                       ELSE normalizeTaskPriority(enumIn.b)]
    /\ UNCHANGED <<store, nextId, now, req, resp, nreq, createLog, updatedIds, lastUpdate, deletedIds, enumIn, app, stats>>

NextEnum == Convert

SpecEnum == InitEnum /\ [][NextEnum]_vars

----------------------------------------------------------------------------
(* TaskStats and PendingTasks on their own: a list of tasks and a current   *)
(* time are drawn, and a component renders, computing its groups.  Times    *)
(* are counted in ticks, DayLen ticks to the day.                           *)

DayLen == 2          \* ticks in 1000 * 60 * 60 * 24 ms
MaxDue == 9          \* latest due time, in ticks
MaxStatTasks == 2    \* tasks passed to a component
DueSoonDays == 3

(* Math.ceil(a / b) for b > 0 *)
Ceil(a, b) == -((-a) \div b)

(* task.dueDate as a condition: null, undefined and "" are falsy *)
Truthy(dueDate) == dueDate # None /\ Val(dueDate).kind # "empty"

(* new Date(dueDate) is an Invalid Date for a text that is no date; every   *)
(* comparison with its time value (NaN) is false.                           *)
isOverdue(dueDate, t) ==
    Val(dueDate).kind = "date" /\ Val(dueDate).t < t

isDueSoon(dueDate, t) ==
    /\ Val(dueDate).kind = "date"
    /\ LET diffTime == Val(dueDate).t - t
           diffDays == Ceil(diffTime, DayLen)
       IN  diffDays <= DueSoonDays /\ diffDays >= 0

(* Array.prototype.filter is SelectSeq. *)
pendingTasks(tasks) ==
    LET Keep(task) == normalizeTaskStatus(task.status) = Pending
    IN  SelectSeq(tasks, Keep)

overdueTasks(pending, t) ==
    LET Keep(task) == Truthy(task.dueDate) /\ isOverdue(task.dueDate, t)
    IN  SelectSeq(pending, Keep)

dueSoonTasksWithOverdue(pending, t) ==
    LET Keep(task) == Truthy(task.dueDate) /\ isDueSoon(task.dueDate, t)
    IN  SelectSeq(pending, Keep)

dueSoonTasks(pending, t) ==
    LET Keep(task) == /\ Truthy(task.dueDate)
                      /\ isDueSoon(task.dueDate, t)
                      /\ ~isOverdue(task.dueDate, t)
    IN  SelectSeq(pending, Keep)

otherPendingTasks(pending, t) ==
    LET Keep(task) == \/ ~Truthy(task.dueDate)
                      \/ (~isOverdue(task.dueDate, t) /\ ~isDueSoon(task.dueDate, t))
    IN  SelectSeq(pending, Keep)

(* Tasks passed to the components: status as a name or a number, dueDate    *)
(* missing, empty, a date, or a text that is no date.                       *)
StatTask(id, status, dueDate) == [id |-> id, status |-> status, dueDate |-> dueDate]

StatStatuses == {Str("Pending"), Num(Pending), Str("Completed")}

StatDueDates ==
    {None, Some(EmptyDate), Some(BadDate)} \cup {Some(DateStr(t)) : t \in 0..MaxDue}

StatTaskLists ==
    UNION {[1..n -> {StatTask(0, s, d) : s \in StatStatuses, d \in StatDueDates}] :
              n \in 0..MaxStatTasks}

InitStats ==
    /\ store = <<>>
    /\ nextId = 1
    /\ now = 0
    /\ req = [r \in Slots |-> Idle]
    /\ resp = NoResponse
    /\ nreq = 0
    /\ createLog = <<>>
    /\ updatedIds = {}
    /\ lastUpdate = <<>>
    /\ deletedIds = {}
    /\ enumIn = [field |-> "status", a |-> Num(0), b |-> Num(0)]
    /\ enumOut = [done |-> FALSE, serverA |-> JsonReadEnum(StatusNames, Num(0)),
                  serverB |-> JsonReadEnum(StatusNames, Num(0)), clientA |-> 0,
                  clientB |-> 0]
    /\ app = AppUnmounted
    /\ \E tasks \in StatTaskLists, t \in 0..DayLen :
          stats = [StatsIdle EXCEPT
                     !.tasks = [i \in DOMAIN tasks |-> [tasks[i] EXCEPT !.id = i]],
                     !.now = t]

(* TaskStats renders. *)
TaskStats ==
    /\ stats.shown = "none"
    /\ LET pending == pendingTasks(stats.tasks)
       IN  stats' = [stats EXCEPT !.shown = "TaskStats",
                                  !.pending = pending,
                                  !.overdue = overdueTasks(pending, stats.now),
                                  !.dueSoon = dueSoonTasks(pending, stats.now),
                                  !.other = otherPendingTasks(pending, stats.now)]
    /\ UNCHANGED <<store, nextId, now, req, resp, nreq, createLog, updatedIds,
                   lastUpdate, deletedIds, enumIn, enumOut, app>>

(* PendingTasks renders: nothing when no task is pending. *)
PendingTasks ==
    /\ stats.shown = "none"
    /\ LET pending == pendingTasks(stats.tasks)
       IN  IF pending = <<>>
           THEN stats' = [stats EXCEPT !.shown = "PendingTasks"]
           ELSE stats' = [stats EXCEPT !.shown = "PendingTasks",
                                       !.pending = pending,
                                       !.overdue = overdueTasks(pending, stats.now),
                                       !.dueSoon = dueSoonTasks(pending, stats.now),
                                       !.other = otherPendingTasks(pending, stats.now)]
    /\ UNCHANGED <<store, nextId, now, req, resp, nreq, createLog, updatedIds,
                   lastUpdate, deletedIds, enumIn, enumOut, app>>

NextStats ==
    \/ TaskStats
    \/ PendingTasks

SpecStats == InitStats /\ [][NextStats]_vars

----------------------------------------------------------------------------
(* Properties *)

LogIds == {createLog[i] : i \in DOMAIN createLog}

(* An absent timestamp is earlier than every timestamp. *)
TimeOf(o) == IF o = None THEN -1 ELSE Val(o)

Created(r) == r.op = "create" /\ r.status = 201

(* The step is the save of the PUT on slot r, answered 204. *)
UpdateSaved(r) ==
    /\ req[r].op = "update"
    /\ req'[r] = Idle
    /\ resp'.status = 204

(* C1: every 201 response carries a non-null id that no earlier 201         *)
(* response carried, also when the earlier task has been deleted since.     *)
C1_CreatedIdsDistinct ==
    /\ \A i, j \in DOMAIN createLog :
          createLog[i] # 0 /\ (i # j => createLog[i] # createLog[j])
    /\ Created(resp) =>
          /\ resp.id # 0
          /\ resp.out[1].id = resp.id
          /\ resp.id = createLog[Len(createLog)]

C1_Witness ==
    /\ Created(resp)
    /\ Len(createLog) = 2
    /\ createLog[1] \notin DOMAIN store

(* C2: the task of a 201 response has createdAt set and updatedAt unset,    *)
(* and a task that no PUT has answered 204 for has updatedAt unset in every *)
(* get and list response.                                                   *)
C2_UpdatedAtUnsetUntilUpdate ==
    /\ Created(resp) =>
          /\ resp.out[1].createdAt \in Times
          /\ resp.out[1].updatedAt = None
    /\ resp.op \in {"get", "list"} =>
          \A i \in DOMAIN resp.out :
              resp.out[i].id \notin updatedIds => resp.out[i].updatedAt = None

(* C3: the save of a PUT answered 204 leaves the row's id and createdAt as  *)
(* they were, whatever the body carried, and leaves every other row as it   *)
(* was.                                                                     *)
C3_UpdateKeepsIdCreatedAtAndOthers ==
    [][\A r \in Slots :
          UpdateSaved(r) =>
             /\ DOMAIN store' = DOMAIN store
             /\ \A i \in DOMAIN store :
                   IF i = req[r].id
                   THEN /\ store'[i].id = store[i].id
                        /\ store'[i].createdAt = store[i].createdAt
                   ELSE store'[i] = store[i]]_vars

(* A PUT whose body carried createdAt = MaxTime and updatedAt = 0 has been  *)
(* saved on a row created earlier, next to another row.                     *)
C3_Witness ==
    /\ resp.op = "update" /\ resp.status = 204
    /\ resp.id \in DOMAIN store
    /\ store[resp.id].title = Val(Bodies[2].title)
    /\ store[resp.id].createdAt < Val(Bodies[2].createdAt)
    /\ Cardinality(DOMAIN store) = 2

C5_DeleteAbsentIsNotFound ==
    [][\A r \in Slots, id \in PathIds :
          (id \notin DOMAIN store /\ DeleteTask(r, id)) =>
             /\ resp' = Response("delete", id, 404, {"Task not found"}, <<>>)
             /\ req' = req
             /\ store' = store]_vars

(* A DELETE of an id that was created and deleted before is answered 404. *)
C5_Witness ==
    /\ resp.op = "delete" /\ resp.status = 404
    /\ resp.id \in LogIds
    /\ resp.id \notin DOMAIN store
    /\ \A r \in Slots : ~InFlight(r)

(* C6: a list response holds every row, newest createdAt first, and of two  *)
(* rows with equal createdAt the one with the larger id first.              *)
C6_ListOrderedWithIdTieBreak ==
    [][\A r \in Slots :
          GetTasks(r) =>
             /\ resp'.status = 200
             /\ {resp'.out[i] : i \in DOMAIN resp'.out} = {store[i] : i \in DOMAIN store}
             /\ Len(resp'.out) = Cardinality(DOMAIN store)
             /\ \A i, j \in DOMAIN resp'.out :
                   i < j =>
                      \/ resp'.out[i].createdAt > resp'.out[j].createdAt
                      \/ /\ resp'.out[i].createdAt = resp'.out[j].createdAt
                         /\ resp'.out[i].id > resp'.out[j].id]_vars

(* The field holds a string token that names no member of the enum. *)
UnrecognizedString(names, field) ==
    /\ field # None
    /\ Val(field).kind = "str"
    /\ Val(field).str \notin DOMAIN names

C8_NameAndOrdinalAgree ==
    (/\ enumOut.done
     /\ \E n \in DOMAIN NamesOf(enumIn.field) :
           enumIn.a = Str(n) /\ enumIn.b = Num(NamesOf(enumIn.field)[n])) =>
       /\ enumOut.serverA.ok
       /\ enumOut.serverB.ok
       /\ enumOut.serverA.val = enumOut.serverB.val
       /\ enumOut.clientA = enumOut.clientB

C8_Witness ==
    /\ enumOut.done
    /\ enumIn.field = "status"
    /\ enumIn.a = Str("Cancelled")
    /\ enumIn.b = Num(Cancelled)
    /\ enumOut.clientA = Cancelled

(* C9: every row's status and priority is one of the four members. *)
C9_StoredEnumsAreMembers ==
    \A i \in DOMAIN store :
        /\ store[i].status \in StatusOrdinals
        /\ store[i].priority \in PriorityOrdinals

(* C10: a PUT whose path id differs from the body's id is answered 400,     *)
(* goes no further and leaves the table as it was, whether or not a row     *)
(* with either id exists.                                                   *)
C10_IdMismatchIsBadRequest ==
    [][\/ /\ resp'.op = "update"
          /\ resp'.status = 400
          /\ req' = req
          /\ store' = store
       \/ nreq' = nreq
       \/ \A r \in Slots :
             Accepts(r) =>
                \A id \in PathIds, b \in BodyIds :
                   \A bodyId \in BodyIdsFor(id) \ {id} : ~UpdateTask(r, id, bodyId, b)]_vars

(* The mismatch was answered for a path id that never had a row. *)
C10_Witness ==
    /\ resp.op = "update"
    /\ resp.status = 400
    /\ resp.error = {"ID mismatch"}
    /\ resp.id \notin LogIds
    /\ store # <<>>

(* C11: a PUT with matching ids and a valid body to an id that has no row   *)
(* is answered 404, goes no further, inserts nothing and leaves the table   *)
(* as it was.                                                               *)
C11_UpdateAbsentIsNotFound ==
    [][\A r \in Slots :
          Accepts(r) =>
             \A id \in PathIds :
                id \notin DOMAIN store =>
                   \A b \in BodyIds :
                      (UpdateErrors[b] = {} /\ UpdateTask(r, id, id, b)) =>
                         /\ resp' = Response("update", id, 404, {"Task not found"}, <<>>)
                         /\ req' = req
                         /\ store' = store
                         /\ nextId' = nextId]_vars

(* The 404 was answered to a PUT of an id whose row had been deleted. *)
C11_Witness ==
    /\ resp.op = "update"
    /\ resp.status = 404
    /\ resp.id \in deletedIds

(* C12: a GET of an id is answered 200 with the row of that id exactly when *)
(* a 201 response carried the id and no DELETE of it has been answered 204  *)
(* since; otherwise it is answered 404.  A GET leaves the table as it was.  *)
C12_GetFollowsCreateAndDelete ==
    [][\A r \in Slots, id \in PathIds :
          GetTask(r, id) =>
             /\ store' = store
             /\ nextId' = nextId
             /\ IF id \in LogIds \ deletedIds
                THEN /\ id \in DOMAIN store
                     /\ store[id].id = id
                     /\ resp' = Response("get", id, 200, {}, <<store[id]>>)
                ELSE resp' = Response("get", id, 404, {"Task not found"}, <<>>)]_vars

(* A GET of an id that was created and deleted has been answered 404. *)
C12_Witness ==
    /\ resp.op = "get"
    /\ resp.status = 404
    /\ resp.id \in LogIds
    /\ resp.id \in deletedIds

(* The POST on slot r with body b answered 201 and inserted exactly one     *)
(* row, the one it returned.                                                *)
CreatedOne(r, b) ==
    /\ Created(resp')
    /\ resp'.id \notin DOMAIN store
    /\ DOMAIN store' = DOMAIN store \cup {resp'.id}
    /\ store'[resp'.id] = resp'.out[1]
    /\ \A i \in DOMAIN store : store'[i] = store[i]

(* The POST was answered 400 and inserted nothing. *)
RejectedCreate ==
    /\ resp'.op = "create"
    /\ resp'.status = 400
    /\ store' = store
    /\ nextId' = nextId

HoldsBody(row, b) ==
    /\ row.title = Val(b.title)
    /\ row.description = b.description
    /\ row.status = BindStatus(b).val
    /\ row.priority = BindPriority(b).val
    /\ row.dueDate = IF b.dueDate = None THEN None ELSE TryParseDate(Val(b.dueDate))

(* C14: once a PUT of an id has been answered 204, the row a GET of that id *)
(* returns holds the title, description, status, priority and due date of   *)
(* that PUT's body, omitted fields cleared.                                 *)
C14_RowHoldsUpdateBody ==
    (/\ resp.op = "update"
     /\ resp.status = 204
     /\ resp.id \notin deletedIds) =>
       /\ resp.id \in DOMAIN store
       /\ HoldsBody(store[resp.id], Bodies[lastUpdate[resp.id]])

(* The step is the save of the DELETE on slot r, answered 204. *)
DeleteSaved(r) ==
    /\ req[r].op = "delete"
    /\ req'[r] = Idle
    /\ resp'.status = 204

(* C15: the save of a DELETE answered 204 removes the row of that id and    *)
(* leaves every other row as it was; from then on the id has no row, every  *)
(* GET of it is answered 404 and no list response holds a task with it.     *)
C15_DeletedStaysDeleted ==
    [][/\ \A i \in deletedIds' : i \notin DOMAIN store'
       /\ (req' = req /\ nreq' # nreq /\ resp'.op = "get" /\ resp'.id \in deletedIds) =>
             resp' = Response("get", resp'.id, 404, {"Task not found"}, <<>>)
       /\ (req' = req /\ nreq' # nreq /\ resp'.op = "list") =>
             \A i \in DOMAIN resp'.out : resp'.out[i].id \notin deletedIds
       /\ \A r \in Slots :
             DeleteSaved(r) =>
                /\ req[r].id \in deletedIds'
                /\ DOMAIN store' = DOMAIN store \ {req[r].id}
                /\ \A i \in DOMAIN store' : store'[i] = store[i]]_vars

(* A list was answered after a DELETE had been answered 204. *)
C15_Witness ==
    /\ resp.op = "list"
    /\ resp.status = 200
    /\ deletedIds # {}

(* C16: the title of every row has no white space at its start or end. *)
C16_StoredTitlesTrimmed ==
    \A i \in DOMAIN store :
        /\ Len(store[i].title) > 0
        /\ store[i].title[1] # " "
        /\ store[i].title[Len(store[i].title)] # " "

(* C17: every task of a create, get or list response is written with its    *)
(* status and its priority in the same representation, the member's name,   *)
(* whether the value was sent as a number or as a name, by POST or by PUT.   *)
C17_EnumsEmittedAsNames ==
    resp.op \in {"create", "get", "list"} =>
       \A i \in DOMAIN resp.out :
          /\ JsonWriteEnum(StatusNames, resp.out[i].status).kind = "str"
          /\ JsonWriteEnum(PriorityNames, resp.out[i].priority).kind = "str"

(* The step answers a request with 500. *)
Answers500 ==
    /\ resp'.status = 500
    /\ nreq' # nreq \/ req' # req
    /\ \A r \in Slots : req'[r] = req[r] \/ req'[r] = Idle

(* C18 as stated: a request that is answered 500 because the store failed   *)
(* leaves the table as it was and leaves the service in the state it had    *)
(* before the request, so that every later request is served as if the      *)
(* failed one had not been made.                                            *)
C18_FailureLeavesNoTrace ==
    [][Answers500 =>
          /\ store' = store
          /\ nextId' = nextId
          /\ createLog' = createLog
          /\ \A r \in Slots : req'[r] # req[r] => resp'.op = req[r].op]_vars

(* C18 amended: a request that is answered 500 because the store failed     *)
(* leaves the table as it was and the other requests in flight as they      *)
(* were; only the identity sequence may have advanced, so that a later      *)
(* create can return a larger id than it would have.                        *)
C18_FailureLeavesTable ==
    [][Answers500 =>
          /\ store' = store
          /\ nextId' >= nextId
          /\ createLog' = createLog
          /\ \A r \in Slots : req'[r] # req[r] => resp'.op = req[r].op]_vars

(* A create was answered 201 after an earlier create had failed and used up *)
(* an id.                                                                   *)
C18_Witness ==
    /\ Created(resp)
    /\ resp.id > Len(createLog)
    /\ resp.id \in DOMAIN store

(* C19: a PUT to an existing id with matching ids is answered 400 exactly   *)
(* when a POST with the same title, description, status, priority and       *)
(* dueDate is answered 400, also for a dueDate text that is no date.        *)
C19_UpdateRejectsWhatCreateRejects ==
    [][nreq' # nreq =>
       \A r \in Slots :
          Accepts(r) =>
             \A id \in DOMAIN store, b \in BodyIds :
                UpdateTask(r, id, id, b) =>
                   ((resp' = Response("update", id, 400, resp'.error, <<>>) /\ req' = req)
                       <=> CreateErrors[b] # {})]_vars

(* The PUT on slot r overlaps another PUT of the same id: one is in flight, *)
(* or one has written the row since r loaded it.                            *)
OverlapsUpdate(r) ==
    \/ \E q \in Slots \ {r} : req[q].op = "update" /\ req[q].id = req[r].id
    \/ store[req[r].id] # req[r].snap

(* C20: when PUTs of one existing id overlap, each is answered 204, and     *)
(* after each save the row holds the title, description, status, priority   *)
(* and due date of the body saved last, not fields of both.                 *)
C20_LastWriteWinsWholeRecord ==
    [][\A r \in Slots :
          (/\ req[r].op = "update"
           /\ req'[r] = Idle
           /\ req[r].id \in DOMAIN store
           /\ OverlapsUpdate(r)) =>
             /\ resp' = Response("update", req[r].id, 204, {}, <<>>)
             /\ req[r].id \in DOMAIN store'
             /\ HoldsBody(store'[req[r].id], Bodies[req[r].body])]_vars

(* C22: when a PUT and a DELETE of one existing id overlap, the save of the *)
(* PUT is answered 204 when the row is still there and 404 when the DELETE  *)
(* has removed it, never 500; an id a DELETE was answered 204 for has no    *)
(* row afterwards.                                                          *)
C22_UpdateRacingDeleteIsNotFound ==
    [][/\ \A r \in Slots :
             (req[r].op = "update" /\ req'[r] = Idle) =>
                /\ resp'.op = "update"
                /\ resp'.status = IF req[r].id \in DOMAIN store THEN 204 ELSE 404
       /\ \A i \in deletedIds' : i \notin DOMAIN store']_vars

(* C23: when two DELETEs of one existing id overlap, both having found the  *)
(* row, the save of the first is answered 204 and removes the row, and the  *)
(* save of the second is answered 404 and removes nothing.                  *)
C23_DeleteRacingDeleteIsNotFound ==
    [][\A r \in Slots :
          (req[r].op = "delete" /\ req'[r] = Idle) =>
             /\ resp'.op = "delete"
             /\ IF req[r].id \in DOMAIN store
                THEN /\ resp'.status = 204
                     /\ DOMAIN store' = DOMAIN store \ {req[r].id}
                ELSE /\ resp'.status = 404
                     /\ store' = store]_vars

(* Ids of the tasks in a list, and the requests of a kind that complete in  *)
(* a step (they leave their slot).                                          *)
IdsOf(tasks) == {tasks[i].id : i \in DOMAIN tasks}
Sent(kind) == {k \in NetSlots : app.net[k].kind = kind /\ app.net[k].phase = "sent"}
Completing(kind) == {k \in NetSlots : app.net[k].kind = kind /\ app'.net[k] = NoFetch}

(* C21: the frontend sends DELETE only after the user confirmed; a declined *)
(* confirmation sends nothing and leaves the list and the error message as  *)
(* they were; a task leaves the list by handleDeleteTask only when the      *)
(* DELETE for its id has succeeded.                                         *)
C21_DeleteOnlyWhenConfirmed ==
    [][app' # app =>
         /\ app'.confirms = Append(app.confirms, FALSE) =>
               /\ app'.net = app.net
               /\ app'.tasks = app.tasks
               /\ app'.error = app.error
         /\ \A k \in NetSlots :
               (app'.net[k].kind = "delete" /\ app.net[k] = NoFetch) =>
                  app'.confirms = Append(app.confirms, TRUE)
         /\ Completing("list") = {} =>
               \A id \in IdsOf(app.tasks) \ IdsOf(app'.tasks) :
                  \E k \in Completing("delete") :
                     app.net[k].id = id /\ app.net[k].phase = "ok"]_vars

(* A declined confirmation has happened, and a confirmed delete has removed *)
(* its task from the list.                                                  *)
C21_Witness ==
    /\ app.confirms = <<FALSE, TRUE>>
    /\ Len(app.tasks) = 0
    /\ \A k \in NetSlots : app.net[k] = NoFetch
    /\ app.oneAtATime
    /\ store = <<>>
    /\ nextId = 2

(* C24: whatever the order in which fetchTasks and the completions of       *)
(* create, update and delete run, the local list never holds two entries    *)
(* with the same id.                                                        *)
C24_LocalIdsDistinct ==
    \A i, j \in DOMAIN app.tasks : i # j => app.tasks[i].id # app.tasks[j].id

(* The local task and the stored row agree on the fields the form edits. *)
SameFields(task, row) ==
    /\ task.title = row.title
    /\ task.description = row.description
    /\ normalizeTaskStatus(task.status) = row.status
    /\ normalizeTaskPriority(task.priority) = row.priority
    /\ task.dueDate = row.dueDate

(* C25: when the requests ran one at a time and all succeeded, then once    *)
(* the last one has completed the local list holds exactly the ids of the   *)
(* table, and each local task has the title, description, status, priority  *)
(* and dueDate of its row.                                                  *)
C25_LocalListMatchesTable ==
    (app.mounted /\ app.oneAtATime /\ ~Busy) =>
        /\ IdsOf(app.tasks) = DOMAIN store
        /\ \A i \in DOMAIN app.tasks : SameFields(app.tasks[i], store[app.tasks[i].id])

(* A create and then an update of the created task have completed, one      *)
(* after the other, on a table that was empty.                              *)
C25_Witness ==
    /\ app.mounted /\ app.oneAtATime /\ ~Busy
    /\ app.ops = 2
    /\ nextId = 2
    /\ Len(app.tasks) = 1
    /\ app.tasks[1].title = <<"b">>
    /\ app.tasks[1].status = Num(Completed)
    /\ store[1].createdAt = 0 /\ store[1].priority = Medium

(* Slots in which a request of one of the kinds is sent in a step. *)
Starting(kinds) ==
    {k \in NetSlots : app.net[k] = NoFetch /\ app'.net[k].kind \in kinds}

(* C26: a create, update or delete request changes the local list neither   *)
(* when it is sent nor when it has failed, and its failure sets the error   *)
(* message; a set error message is cleared only by Dismiss or by the start  *)
(* of fetchTasks.                                                           *)
C26_FailureKeepsListAndSetsError ==
    [][app' # app =>
         /\ Starting({"create", "update", "delete"}) # {} => app'.tasks = app.tasks
         /\ \A k \in NetSlots :
               (/\ app.net[k].kind \in {"create", "update", "delete"}
                /\ app.net[k].phase = "failed"
                /\ app'.net[k] = NoFetch) =>
                   /\ app'.tasks = app.tasks
                   /\ app'.error # None
         /\ (app.error # None /\ app'.error = None) =>
               \/ Starting({"list"}) # {}
               \/ app' = [app EXCEPT !.error = None]]_vars

(* A delete has failed: its task is still in the list and in the table and  *)
(* the error message of handleDeleteTask is shown.                          *)
C26_Witness ==
    /\ app.error = Some(ErrDelete)
    /\ app.confirms = <<TRUE>>
    /\ ~Busy
    /\ Len(app.tasks) = 1
    /\ app.tasks[1].id \in DOMAIN store
    /\ ~app.oneAtATime

(* A request of one of the kinds is in flight. *)
InFlightOf(kinds) == \E k \in NetSlots : app.net[k].kind \in kinds

(* C27: when the requests complete, every fetchTasks that has started is    *)
(* followed by loading = false, and every create or update that has started *)
(* is followed by isSubmitting = false, whether the request succeeded or    *)
(* failed.                                                                  *)
C27_LoadingAndSubmittingEnd ==
    /\ (InFlightOf({"list"}) /\ app.loading) ~> ~app.loading
    /\ (InFlightOf({"create", "update"}) /\ app.isSubmitting) ~> ~app.isSubmitting

(* A create has failed and its handler has run to the end. *)
C27_Witness ==
    /\ app.error = Some(ErrCreate)
    /\ ~app.isSubmitting
    /\ ~app.loading
    /\ ~InFlightOf({"list", "create", "update"})
    /\ app.ops = 1

(* C28: editingTask is set only while the form dialog is open, so a form    *)
(* opened with Add Task submits a create.                                   *)
C28_EditingTaskOnlyWhileFormOpen ==
    ~app.isFormOpen => app.editingTask = None

(* t is s without its leading and trailing spaces. *)
IsBlank(s) == \A i \in DOMAIN s : s[i] = " "
IsTrimOf(t, s) ==
    /\ t # <<>>
    /\ Head(t) # " "
    /\ t[Len(t)] # " "
    /\ \E i \in 0..Len(s) :
          /\ i + Len(t) <= Len(s)
          /\ t = SubSeq(s, i + 1, i + Len(t))
          /\ \A j \in DOMAIN s : (j <= i \/ j > i + Len(t)) => s[j] = " "

(* C29: a submit of the form with a blank title sends no request and sets   *)
(* the title error; with any other title it sends exactly one request,      *)
(* with the trimmed title: an update of task.id when the form was given a   *)
(* task, a create without id when it was given none.                        *)
C29_SubmitValidatesTrimsAndRoutes ==
    [][(app' # app /\ FormShown /\ \E k \in NetSlots : HandleSubmit(k)) =>
         IF IsBlank(app.formData.title)
         THEN /\ app'.net = app.net
              /\ app'.titleError = Some(ErrTitle)
         ELSE /\ Cardinality(Starting({"create", "update"})) = 1
              /\ Cardinality(Starting({"list", "delete"})) = 0
              /\ \A k \in Starting({"create", "update"}) :
                    LET f == app'.net[k]
                    IN  /\ IsTrimOf(f.data.title, app.formData.title)
                        /\ IF app.editingTask = None
                           THEN f.kind = "create" /\ f.data.id = None
                           ELSE /\ f.kind = "update"
                                /\ f.data.id = Some(Val(app.editingTask).id)
                                /\ f.id = Val(app.editingTask).id]_vars

(* The form of an edit of task 1 was submitted with a title typed with      *)
(* spaces around it; the update request carries the trimmed title.          *)
C29_Witness ==
    /\ FormShown
    /\ app.formData.title = <<" ", "b", " ">>
    /\ app.editingTask # None
    /\ \E k \in NetSlots :
          /\ app.net[k].kind = "update"
          /\ app.net[k].phase = "sent"
          /\ app.net[k].data.title = <<"b">>
          /\ app.net[k].data.id = Some(1)

InGroup(task, group) == \E i \in DOMAIN group : group[i] = task

(* C30: for one current time, every pending task of a rendered TaskStats or *)
(* PendingTasks is in exactly one of the groups overdue, due soon and       *)
(* other, the groups hold pending tasks only, the number of pending tasks   *)
(* is the sum of the sizes of the groups, and a pending task without        *)
(* dueDate is in other.                                                     *)
C30_PendingGroupsPartition ==
    stats.shown # "none" =>
        /\ \A i \in DOMAIN stats.tasks :
              LET task == stats.tasks[i]
                  groups == {g \in {"overdue", "dueSoon", "other"} : InGroup(task, stats[g])}
              IN  IF normalizeTaskStatus(task.status) = Pending
                  THEN /\ Cardinality(groups) = 1
                       /\ ~Truthy(task.dueDate) => groups = {"other"}
                  ELSE groups = {}
        /\ Len(stats.pending) = Len(stats.overdue) + Len(stats.dueSoon) + Len(stats.other)
        /\ Len(stats.pending) =
              Cardinality({i \in DOMAIN stats.tasks :
                              normalizeTaskStatus(stats.tasks[i].status) = Pending})

(* A rendering with a task half a day overdue (isDueSoon is true of it as   *)
(* well) and a task without dueDate.                                        *)
C30_Witness ==
    /\ stats.shown = "PendingTasks"
    /\ stats.now = 1
    /\ Len(stats.overdue) = 1
    /\ stats.overdue[1].dueDate = Some(DateStr(0))
    /\ isDueSoon(stats.overdue[1].dueDate, stats.now)
    /\ Len(stats.other) = 1
    /\ stats.other[1].dueDate = None
    /\ stats.dueSoon = <<>>

====
